---------------------------- MODULE Spec2Model ----------------------------
(***************************************************************************)
(* RingBuffer<T, N> of src/src/ring_buffer.rs: a fixed-capacity circular   *)
(* buffer over a raw memory block, with head/tail raw pointers and an      *)
(* is_empty flag.                                                          *)
(*                                                                         *)
(* Pointers are byte addresses.  usize is WordBits wide (a scaled-down     *)
(* machine word), so that the layout computations can reach their error    *)
(* cases.  A value of T is an element of TValues; a slot of the ring is    *)
(* size_of bytes wide and slot i starts at buffer + i * size_of.           *)
(***************************************************************************)
EXTENDS Integers, Sequences, FiniteSets, TLC

\* ----------------------------------------------------------------- bounds
\* Largest capacity N the model instantiates.
MaxN == 3
\* Values of T are 0..MaxVal (0 is the all-zero bit pattern).
MaxVal == 1
\* Width of usize / isize in bits.
WordBits == 5

USIZE_MAX == 2^WordBits - 1
ISIZE_MAX == 2^(WordBits - 1) - 1

\* The element sizes (mem::size_of::<T>()) the model instantiates: a
\* zero-sized type, a byte, sizes 2 and 3, and a size whose alignment
\* request no layout can hold.  Every size is <= isize::MAX, as the size of
\* every Rust type is.
BigSize == 2^(WordBits - 2) + 1
Sizes == {0, 1, 2, 3, BigSize}
Capacities == 1..MaxN
Values == 0..MaxVal

VARIABLES
    size_of,      \* mem::size_of::<T>()
    N,            \* the const generic capacity
    phase,        \* "unborn", "live", "failed" (new returned Err), "dropped"
    buffer,       \* RingBuffer.buffer: base address of the block (0 = null)
    is_empty,     \* RingBuffer.is_empty
    head,         \* RingBuffer.head (address)
    tail,         \* RingBuffer.tail (address)
    mem,          \* the contents written through the ring, by slot index
    allocLayout,  \* the layouts of the blocks alloc_zeroed has returned
    freeLayout,   \* the sequence of layouts handed to dealloc so far
    queue,        \* history: the accepted, not yet returned values, oldest first
    fresh,        \* history: no push_value call since construction
    retry,        \* history: "none", "rejected" (a push was rejected),
                  \* "drained" (a value was then removed), "retried" (a
                  \* push was then accepted)
    last          \* history: the last call, its result and the state before it

vars == <<size_of, N, phase, buffer, is_empty, head, tail, mem,
          allocLayout, freeLayout, queue, fresh, retry, last>>

\* -------------------------------------------------------------- the heap
\* Option<usize> is a set with at most one element.
\* usize::checked_next_power_of_two: the smallest power of two >= x (1 for
\* x = 0), None when it does not fit usize.
checked_next_power_of_two(x) ==
    LET fits == {k \in 0..WordBits : 2^k >= x /\ 2^k <= USIZE_MAX}
    IN  IF fits = {} THEN {}
        ELSE {2^(CHOOSE k \in fits : \A j \in fits : k <= j)}

\* alloc::Layout::from_size_align(size, align): Ok iff align is a non-zero
\* power of two and size, rounded up to align, does not exceed isize::MAX.
LayoutValid(size, align) ==
    /\ \E k \in 0..(WordBits - 1) : align = 2^k
    /\ size <= ISIZE_MAX - (align - 1)

from_size_align(size, align) ==
    IF LayoutValid(size, align) THEN {[size |-> size, align |-> align]} ELSE {}

\* The addresses alloc_zeroed may return for a layout: null, or a non-null
\* address aligned as asked.
AllocResults(layout) == {0} \cup {layout.align * k : k \in 1..2}

\* The values of T: a zero-sized type has one value.
TValues == IF size_of = 0 THEN {0} ELSE Values

SlotOf(ptr) == IF size_of = 0 THEN 0 ELSE (ptr - buffer) \div size_of

\* The bytes [ptr, ptr + size_of) lie inside the block alloc_zeroed returned.
InBlock(ptr) ==
    \E l \in allocLayout : ptr >= buffer /\ ptr + size_of <= buffer + l.size

\* *ptr for a read.  A slot inside the block holds what was last written to
\* it; a slot reaching outside the block is memory the instance does not
\* own, so the read yields any value of T.
ReadAt(ptr) ==
    IF size_of = 0 THEN {0}
    ELSE IF InBlock(ptr) THEN {mem[SlotOf(ptr)]}
    ELSE TValues

\* A write that lands one slot further on than ptr.
WriteAt_shifted(ptr, value) ==
    IF size_of = 0 THEN mem
    ELSE [mem EXCEPT ![(SlotOf(ptr) + 1) % MaxN] = value]

\* *ptr = value for a write (a write of a zero-sized value writes nothing).
WriteAt(ptr, value) ==
    IF size_of = 0 THEN mem ELSE [mem EXCEPT ![SlotOf(ptr)] = value]

\* ------------------------------------------------------------ the methods
Snapshot ==
    [head |-> head, tail |-> tail, is_empty |-> is_empty, mem |-> mem,
     queue |-> queue, buffer |-> buffer, retry |-> retry]

NoPre == [head |-> 0, tail |-> 0, is_empty |-> TRUE,
          mem |-> [i \in 0..(MaxN - 1) |-> 0], queue |-> <<>>, buffer |-> 0,
          retry |-> "none"]

Init ==
    /\ size_of \in Sizes
    /\ N \in Capacities
    /\ phase = "unborn"
    /\ buffer = 0
    /\ is_empty = TRUE
    /\ head = 0
    /\ tail = 0
    /\ mem = [i \in 0..(MaxN - 1) |-> 0]
    /\ allocLayout = {}
    /\ freeLayout = <<>>
    /\ queue = <<>>
    /\ fresh = TRUE
    /\ retry = "none"
    /\ last = [op |-> "none", arg |-> 0, ok |-> TRUE, val |-> 0,
               err |-> "none", pre |-> NoPre]

\* is_overflow that never reports a full buffer.
is_overflow_never == FALSE

\* fn is_overflow(&self) -> bool
is_overflow == ~is_empty /\ (tail = head)

\* next_pointer_value with buffer_end one slot too far (wraps one late).
next_pointer_value_wrap_late(ptr) ==
    LET buffer_end == buffer + N * size_of
    IN  IF ptr + size_of > buffer_end THEN buffer ELSE ptr + size_of

\* next_pointer_value comparing with >= (wraps one early).
next_pointer_value_wrap_early(ptr) ==
    LET buffer_end == buffer + (N - 1) * size_of
    IN  IF ptr + size_of >= buffer_end THEN buffer ELSE ptr + size_of

\* fn next_pointer_value(&self, ptr) -> *const T
next_pointer_value(ptr) ==
    LET buffer_end == buffer + (N - 1) * size_of
    IN  IF ptr + size_of > buffer_end THEN buffer ELSE ptr + size_of

\* SelfInit with the flag initialised the wrong way round.
SelfInit_flag_false(b) ==
    [buffer |-> b, is_empty |-> FALSE, head |-> b, tail |-> b]

\* Ok(Self { buffer, is_empty: true, head: buffer, tail: buffer })
SelfInit(b) == [buffer |-> b, is_empty |-> TRUE, head |-> b, tail |-> b]

NewFails(e) ==
    /\ phase' = "failed"
    /\ last' = [op |-> "new", arg |-> 0, ok |-> FALSE, val |-> 0,
                err |-> e, pre |-> Snapshot]
    /\ UNCHANGED <<buffer, is_empty, head, tail>>

\* pub fn new() -> Result<Self, RingBufferError<T>>
New ==
    /\ phase = "unborn"
    /\ LET element_size == checked_next_power_of_two(size_of)
       IN  IF element_size = {}
           THEN NewFails("InitializationLayoutError") /\ UNCHANGED allocLayout
           ELSE LET align == CHOOSE a \in element_size : TRUE
                    buffer_layout == from_size_align(N, align)
                IN  IF buffer_layout = {}
                    THEN /\ NewFails("InitializationLayoutError")
                         /\ UNCHANGED allocLayout
                    ELSE LET layout == CHOOSE l \in buffer_layout : TRUE
                         IN  \E b \in AllocResults(layout) :
                                  IF b = 0
                                  THEN /\ NewFails("InitializationAllocationError")
                                       /\ UNCHANGED allocLayout
                                  ELSE /\ allocLayout' = allocLayout \cup {layout}
                                       /\ phase' = "live"
                                       /\ buffer' = SelfInit(b).buffer
                                       /\ is_empty' = SelfInit(b).is_empty
                                       /\ head' = SelfInit(b).head
                                       /\ tail' = SelfInit(b).tail
                                       /\ last' = [op |-> "new", arg |-> 0,
                                                   ok |-> TRUE, val |-> 0,
                                                   err |-> "none",
                                                   pre |-> Snapshot]
    /\ UNCHANGED <<size_of, N, mem, freeLayout, queue, fresh, retry>>

\* push_value that overwrites the oldest element when the buffer is full
\* (and still reports the overflow).
push_value_overwrite(value) ==
    /\ phase = "live"
    /\ fresh' = FALSE
    /\ mem' = WriteAt(tail, value)
    /\ tail' = next_pointer_value(tail)
    /\ is_empty' = FALSE
    /\ IF is_overflow
       THEN /\ last' = [op |-> "push", arg |-> value, ok |-> FALSE,
                        val |-> value, err |-> "OverflowError",
                        pre |-> Snapshot]
            /\ retry' = "rejected"
            /\ UNCHANGED queue
       ELSE /\ retry' = IF retry = "drained" THEN "retried" ELSE retry
            /\ queue' = Append(queue, value)
            /\ last' = [op |-> "push", arg |-> value, ok |-> TRUE,
                        val |-> 0, err |-> "none", pre |-> Snapshot]
    /\ UNCHANGED <<size_of, N, phase, buffer, head, allocLayout, freeLayout>>

\* push_value that forgets to clear is_empty.
push_value_flag_unset(value) ==
    /\ phase = "live"
    /\ fresh' = FALSE
    /\ IF is_overflow
       THEN /\ last' = [op |-> "push", arg |-> value, ok |-> FALSE,
                        val |-> value, err |-> "OverflowError",
                        pre |-> Snapshot]
            /\ retry' = "rejected"
            /\ UNCHANGED <<mem, tail, is_empty, queue>>
       ELSE /\ mem' = WriteAt(tail, value)
            /\ retry' = IF retry = "drained" THEN "retried" ELSE retry
            /\ tail' = next_pointer_value(tail)
            /\ UNCHANGED is_empty
            /\ queue' = Append(queue, value)
            /\ last' = [op |-> "push", arg |-> value, ok |-> TRUE,
                        val |-> 0, err |-> "none", pre |-> Snapshot]
    /\ UNCHANGED <<size_of, N, phase, buffer, head, allocLayout, freeLayout>>

\* pub fn push_value(&mut self, value: T) -> Result<(), RingBufferError<T>>
push_value(value) ==
    /\ phase = "live"
    /\ fresh' = FALSE
    /\ IF is_overflow
       THEN /\ last' = [op |-> "push", arg |-> value, ok |-> FALSE,
                        val |-> value, err |-> "OverflowError",
                        pre |-> Snapshot]
            /\ retry' = "rejected"
            /\ UNCHANGED <<mem, tail, is_empty, queue>>
       ELSE /\ mem' = WriteAt(tail, value)
            /\ retry' = IF retry = "drained" THEN "retried" ELSE retry
            /\ tail' = next_pointer_value(tail)
            /\ is_empty' = FALSE
            /\ queue' = Append(queue, value)
            /\ last' = [op |-> "push", arg |-> value, ok |-> TRUE,
                        val |-> 0, err |-> "none", pre |-> Snapshot]
    /\ UNCHANGED <<size_of, N, phase, buffer, head, allocLayout, freeLayout>>

PushValue == \E value \in TValues : push_value(value)

\* next_value that never sets is_empty again.
next_value_of_flag_kept(h, t, e) ==
    IF ~e
    THEN [some |-> TRUE, head |-> next_pointer_value(h), is_empty |-> FALSE]
    ELSE [some |-> FALSE, head |-> h, is_empty |-> e]

\* next_value that advances head whether or not the buffer is empty.
next_value_of_always_advance(h, t, e) ==
    LET new_head == next_pointer_value(h)
    IN  [some |-> ~e, head |-> new_head, is_empty |-> e \/ (new_head = t)]

\* The control part of next_value on head h, tail t and flag e: whether a
\* value is returned, and the head and flag it leaves.
next_value_of(h, t, e) ==
    IF ~e
    THEN LET new_head == next_pointer_value(h)
         IN  [some |-> TRUE, head |-> new_head, is_empty |-> (new_head = t)]
    ELSE [some |-> FALSE, head |-> h, is_empty |-> e]

\* pub fn next_value(&mut self) -> Option<T>
NextValue ==
    /\ phase = "live"
    /\ LET r == next_value_of(head, tail, is_empty)
       IN  /\ head' = r.head
           /\ is_empty' = r.is_empty
           /\ IF r.some
              THEN /\ \E value \in ReadAt(head) :
                        last' = [op |-> "pop", arg |-> 0, ok |-> TRUE,
                                 val |-> value, err |-> "none",
                                 pre |-> Snapshot]
                   /\ queue' = IF queue = <<>> THEN queue ELSE Tail(queue)
                   /\ retry' = IF retry = "rejected" THEN "drained" ELSE retry
              ELSE /\ last' = [op |-> "pop", arg |-> 0, ok |-> FALSE,
                               val |-> 0, err |-> "none", pre |-> Snapshot]
                   /\ UNCHANGED <<queue, retry>>
    /\ UNCHANGED <<size_of, N, phase, buffer, tail, mem, allocLayout,
                   freeLayout, fresh>>

\* free_buffer that sizes the layout as N elements of the stride.
free_buffer_stride ==
    LET align == CHOOSE a \in checked_next_power_of_two(size_of) : TRUE
    IN  freeLayout' = Append(freeLayout, [size |-> N * align, align |-> align])

\* fn free_buffer(&mut self): the layout is computed again, with the
\* unchecked next_power_of_two, and unwrapped.
free_buffer ==
    LET align == CHOOSE a \in checked_next_power_of_two(size_of) : TRUE
        buffer_layout == CHOOSE l \in from_size_align(N, align) : TRUE
    IN  freeLayout' = Append(freeLayout, buffer_layout)

\* impl Drop for RingBuffer: runs once, when the owner of a constructed
\* instance lets go of it; the instance cannot be used afterwards.
Drop ==
    /\ phase = "live"
    /\ phase' = "dropped"
    /\ free_buffer
    /\ last' = [op |-> "drop", arg |-> 0, ok |-> TRUE, val |-> 0,
                err |-> "none", pre |-> Snapshot]
    /\ UNCHANGED <<size_of, N, buffer, is_empty, head, tail, mem,
                   allocLayout, queue, fresh, retry>>

Next == New \/ PushValue \/ NextValue \/ Drop

Spec == Init /\ [][Next]_vars

\* ------------------------------------------------------------- the claims
\* The number of stored (accepted, not yet returned) elements.
Count == Len(queue)

PushCalled == last.op = "push"
PopCalled == last.op = "pop"

\* C1 - FIFO order: a next_value call returns a value exactly when an
\* accepted value is still stored, and the value it returns is the oldest
\* accepted value not yet returned.
C1_FifoOrder ==
    PopCalled =>
        /\ last.ok <=> (last.pre.queue # <<>>)
        /\ last.ok => last.val = Head(last.pre.queue)

C3_CapacityBoundary ==
    PushCalled => (~last.ok <=> Len(last.pre.queue) = N)

\* C4 - Reuse after partial drain: once a push has been rejected and a value
\* has then been removed, the retried push is accepted, and from then on
\* each next_value returns the oldest stored value, so the retried value
\* comes out after every older one.
C4_ReuseAfterPartialDrain ==
    /\ (PushCalled /\ last.pre.retry = "drained") => last.ok
    /\ (PopCalled /\ last.pre.retry = "retried" /\ last.ok) =>
          /\ last.pre.queue # <<>>
          /\ last.val = Head(last.pre.queue)

\* The number of next_value calls that return a value from head h and flag
\* e on, until one returns None (at most fuel of them are followed).
RECURSIVE PopsUntilNone(_, _, _)
PopsUntilNone(h, e, fuel) ==
    LET r == next_value_of(h, tail, e)
    IN  IF ~r.some THEN 0
        ELSE IF fuel = 0 THEN 1
        ELSE 1 + PopsUntilNone(r.head, r.is_empty, fuel - 1)

\* C5 - Drain-to-empty: in every state of a live buffer holding k elements
\* the next k next_value calls return a value and the one after them
\* returns None; and a next_value call returns None exactly when nothing is
\* stored.
C5_DrainToEmpty ==
    /\ phase = "live" => PopsUntilNone(head, is_empty, MaxN + 1) = Count
    /\ PopCalled => (last.ok <=> Len(last.pre.queue) > 0)

\* Values were pushed, as many were popped, and a further pop returned None
\* with head away from the first slot.
C5_Witness ==
    /\ PopCalled /\ ~last.ok /\ ~fresh /\ Count = 0
    /\ N >= 2 /\ head # buffer

\* C6 - Empty-on-init: a successful new leaves head and tail at the first
\* slot of the (non-null) storage with is_empty true, and a next_value call
\* with no push_value call before it returns None.
C6_EmptyOnInit ==
    /\ (last.op = "new" /\ last.ok) =>
          /\ phase = "live"
          /\ buffer # 0
          /\ head = buffer
          /\ tail = buffer
          /\ is_empty
    /\ (PopCalled /\ fresh) => ~last.ok

\* next_value was called on a freshly constructed buffer, before any push.
C6_Witness == PopCalled /\ fresh /\ phase = "live" /\ size_of >= 1

\* C7 - next_value on an empty buffer returns None and changes nothing.
C7_PopEmptyNoMutation ==
    (PopCalled /\ last.pre.is_empty) =>
        /\ ~last.ok
        /\ head = last.pre.head
        /\ tail = last.pre.tail
        /\ is_empty = last.pre.is_empty
        /\ mem = last.pre.mem
        /\ queue = last.pre.queue
        /\ buffer = last.pre.buffer

\* next_value was called on a buffer that had been filled and emptied, with
\* head left away from the first slot and a non-zero value in the storage.
C7_Witness ==
    /\ PopCalled /\ last.pre.is_empty /\ ~fresh
    /\ head # buffer /\ \E i \in 0..(MaxN - 1) : mem[i] # 0

\* C8 - new on a zero-sized element type, or on a size whose next power of
\* two overflows, returns InitializationLayoutError, with no instance and
\* no allocation.
C8_DegenerateSizeRejected ==
    (last.op = "new"
       /\ (size_of = 0 \/ checked_next_power_of_two(size_of) = {})) =>
        /\ ~last.ok
        /\ last.err = "InitializationLayoutError"
        /\ phase = "failed"
        /\ allocLayout = {}

\* C9 - a successful new has allocated exactly N * stride bytes, stride the
\* next power of two >= size_of.
C9_AllocatesNTimesStride ==
    phase = "live" =>
        \A l \in allocLayout :
            \A stride \in checked_next_power_of_two(size_of) :
                l.size = N * stride

\* C10 - Storage lifecycle: storage is released at most once, exactly once
\* by the time the instance is dropped, and then with the size and alignment
\* it was allocated with; nothing is released before the drop or after a
\* failed construction; and the drop is the last call on the instance.
C10_StorageLifecycle ==
    /\ Len(freeLayout) <= 1
    /\ Cardinality(allocLayout) <= 1
    /\ phase = "dropped" =>
          /\ Len(freeLayout) = 1
          /\ allocLayout = {freeLayout[1]}
          /\ last.op = "drop"
    /\ phase \in {"unborn", "live", "failed"} => freeLayout = <<>>
    /\ phase = "failed" => allocLayout = {}

\* An instance of a two-byte element type was used and then dropped.
C10_Witness ==
    /\ phase = "dropped" /\ size_of = 2 /\ Len(freeLayout) = 1
    /\ ~fresh /\ Count > 0

\* C11 - In every state of a constructed buffer is_empty is true if and
\* only if no element is stored.
C11_EmptyFlagIffCountZero ==
    phase = "live" => (is_empty <=> Count = 0)

\* A buffer of a two-byte element type that has been filled, has wrapped
\* and still holds an element, with the flag false.
C11_Witness ==
    /\ phase = "live" /\ ~is_empty /\ Count = 1 /\ size_of = 2
    /\ N >= 2 /\ tail = buffer /\ head # buffer

\* C12 - In every state of a constructed buffer exactly N elements are
\* stored if and only if is_empty is false and head = tail, that is, if and
\* only if is_overflow is true.
C12_FullIffOverflow ==
    phase = "live" =>
        /\ (Count = N) <=> (~is_empty /\ head = tail)
        /\ (Count = N) <=> is_overflow

\* C13 - In every state the number of stored elements is between 0 and N.
C13_CountWithinCapacity == Count >= 0 /\ Count <= N

\* A push was rejected on a buffer that holds N elements after it had
\* wrapped around.
C13_Witness ==
    /\ phase = "live" /\ Count = N /\ N >= 2 /\ head # buffer
    /\ PushCalled /\ ~last.ok

\* The address of slot i of the storage block.
SlotAddr(i) == buffer + i * size_of

\* C14 - In every state of a constructed buffer head and tail are each the
\* address of one of the slots 0..N-1 of the storage block.
C14_PointersDesignateSlots ==
    phase = "live" =>
        /\ \E i \in 0..(N - 1) : head = SlotAddr(i)
        /\ \E i \in 0..(N - 1) : tail = SlotAddr(i)

\* head is at the last slot and tail has wrapped to the first one.
C14_Witness ==
    /\ phase = "live" /\ N >= 2 /\ size_of >= 2
    /\ head = SlotAddr(N - 1) /\ tail = buffer /\ ~is_empty

\* C15 - Position advancement: next_pointer_value takes slot i to slot
\* (i + 1) mod N for every i in 0..N-1, an accepted push_value moves tail by
\* that rule and a next_value that returns a value moves head by it.
C15_PositionAdvancement ==
    phase = "live" =>
        /\ \A i \in 0..(N - 1) :
              next_pointer_value(SlotAddr(i)) = SlotAddr((i + 1) % N)
        /\ (PushCalled /\ last.ok) =>
              tail = SlotAddr((SlotOf(last.pre.tail) + 1) % N)
        /\ (PopCalled /\ last.ok) =>
              head = SlotAddr((SlotOf(last.pre.head) + 1) % N)

\* A next_value call took head from the last slot back to the first.
C15_Witness ==
    /\ phase = "live" /\ PopCalled /\ last.ok /\ N >= 2 /\ size_of = 3
    /\ last.pre.head = SlotAddr(N - 1) /\ head = buffer

\* The class of a buffer that stores n elements.
Class(n) == IF n = 0 THEN "Empty" ELSE IF n = N THEN "Full" ELSE "Partial"

PreClass == Class(Len(last.pre.queue))

\* The parts of the state machine that do not depend on the capacity: a
\* call changes the stored count by at most one, pushes from Partial lead to
\* Partial or Full, pops from Partial lead to Partial or Empty, and a push
\* in Full or a pop in Empty is rejected and leaves the state unchanged.
StateMachineCommon ==
    /\ (PushCalled \/ PopCalled) =>
          Count - Len(last.pre.queue) \in {-1, 0, 1}
    /\ (PushCalled /\ PreClass = "Partial") =>
          Class(Count) \in {"Partial", "Full"}
    /\ (PopCalled /\ PreClass = "Partial") =>
          Class(Count) \in {"Partial", "Empty"}
    /\ ((PushCalled /\ PreClass = "Full")
          \/ (PopCalled /\ PreClass = "Empty")) =>
          /\ ~last.ok
          /\ head = last.pre.head
          /\ tail = last.pre.tail
          /\ is_empty = last.pre.is_empty
          /\ mem = last.pre.mem
          /\ queue = last.pre.queue

\* C16 as stated - State machine: for every N >= 1 an accepted push from
\* Empty leads to Partial and a pop from Full leads to Partial, besides the
\* transitions from Partial and the two rejections.
C16_StateMachineAsStated ==
    /\ StateMachineCommon
    /\ (PushCalled /\ last.ok /\ PreClass = "Empty") =>
          Class(Count) = "Partial"
    /\ (PopCalled /\ PreClass = "Full") => Class(Count) = "Partial"

\* C16 - State machine, amended: an accepted push from Empty leads to
\* Partial, or to Full when N = 1; a pop from Full leads to Partial, or to
\* Empty when N = 1; pushes from Partial lead to Partial or Full, pops from
\* Partial lead to Partial or Empty, and a push in Full or a pop in Empty is
\* rejected and leaves the state unchanged.
C16_StateMachine ==
    /\ StateMachineCommon
    /\ (PushCalled /\ last.ok /\ PreClass = "Empty") =>
          Class(Count) = IF N = 1 THEN "Full" ELSE "Partial"
    /\ (PopCalled /\ PreClass = "Full") =>
          Class(Count) = IF N = 1 THEN "Empty" ELSE "Partial"

\* With N = 1 a pop took a full buffer of bytes straight to Empty.
C16_Witness ==
    /\ N = 1 /\ size_of = 1 /\ PopCalled /\ last.ok
    /\ PreClass = "Full" /\ Class(Count) = "Empty"

\* C17 - Small capacities do not collapse empty and full: with N <= 2 an
\* empty buffer has is_empty true and a buffer holding N elements has
\* is_empty false with head = tail; and with N = 1 a push on the empty
\* buffer is accepted, a push on the one stored element fails with
\* OverflowError, a pop then returns the pushed value and a pop on the empty
\* buffer returns None.
C17_SmallCapacities ==
    /\ (phase = "live" /\ N <= 2) =>
          /\ Count = 0 => (is_empty /\ ~is_overflow)
          /\ Count = N => (~is_empty /\ head = tail /\ is_overflow)
    /\ (N = 1 /\ PushCalled) =>
          /\ Len(last.pre.queue) = 0 => last.ok
          /\ Len(last.pre.queue) = 1 =>
                (~last.ok /\ last.err = "OverflowError")
    /\ (N = 1 /\ PopCalled) =>
          /\ Len(last.pre.queue) = 1 =>
                (last.ok /\ last.val = Head(last.pre.queue))
          /\ Len(last.pre.queue) = 0 => ~last.ok

\* C18 - Memory bounds: for every element size >= 1 the slot an accepted
\* push_value writes and the slot a next_value reads lie entirely inside the
\* block new allocated.
C18_AccessesInsideBlock ==
    (phase = "live" /\ size_of >= 1 /\ last.ok) =>
        /\ PushCalled => InBlock(last.pre.tail)
        /\ PopCalled => InBlock(last.pre.head)

\* The slots that hold the n stored elements when the oldest is at h.
OccupiedSlots(h, n) == {(SlotOf(h) + j) % N : j \in 0..(n - 1)}

\* C19 - Frame conditions: an accepted push_value changes the storage at
\* most in the slot at the old tail, which holds no stored element, and
\* leaves head and buffer unchanged; a next_value that returns a value
\* leaves tail, buffer and the storage unchanged.
C19_FrameConditions ==
    /\ (PushCalled /\ last.ok) =>
          /\ head = last.pre.head
          /\ buffer = last.pre.buffer
          /\ \A i \in 0..(MaxN - 1) :
                mem[i] # last.pre.mem[i] => i = SlotOf(last.pre.tail)
          /\ size_of >= 1 =>
                /\ mem[SlotOf(last.pre.tail)] = last.arg
                /\ SlotOf(last.pre.tail) \notin
                      OccupiedSlots(last.pre.head, Len(last.pre.queue))
    /\ (PopCalled /\ last.ok) =>
          /\ tail = last.pre.tail
          /\ buffer = last.pre.buffer
          /\ mem = last.pre.mem

\* With two elements stored away from the first slot, a push wrote a
\* non-zero value into the free slot of a three-slot buffer.
C19_Witness ==
    /\ PushCalled /\ last.ok /\ last.arg = 1 /\ size_of = 1 /\ N = 3
    /\ Len(last.pre.queue) = 2 /\ last.pre.head # buffer
    /\ mem # last.pre.mem

=============================================================================
